---- MODULE Spec2Model ----
(***************************************************************************)
(* State-machine model of the timetable generator of src/timetable.py:     *)
(* the persisted session store, the manual CRUD operations and             *)
(* auto_generate_timetable, one action per loop step of the generator.     *)
(*                                                                         *)
(* Conventions                                                             *)
(*  - Times are "HH:MM" strings in the source, compared lexically; for     *)
(*    zero-padded 24-hour strings that order is the order of the minutes   *)
(*    since midnight, which is what the model stores (09:00 = 540).        *)
(*  - The pools DAYS, TIME_SLOTS, SAMPLE_FACULTY and ROOMS are "editable"  *)
(*    module constants of the source (line 19).  The model fixes their     *)
(*    sizes in Init (nDays, nSlots, nFaculty, nRooms never change) and     *)
(*    takes a prefix of the source's lists.                                *)
(*  - random.shuffle / random.choice are nondeterministic choices.         *)
(*  - inserts is a list that is only appended to and handed to             *)
(*    executemany, whose outcome does not depend on the order of the rows: *)
(*    the model keeps it as a bag of rows.                                 *)
(***************************************************************************)
EXTENDS Integers, Sequences, FiniteSets, Bags, TLC

\* ------------------------------------------------------------------ bounds
\* Sizes of the pools, of the catalog and of the arguments of a call.
MaxDays == 2
MaxSlots == 3
MaxFaculty == 2
MaxRooms == 2
MaxSemesters == 2
MaxSections == 2
NumSubjects == 2
\* Generator calls explored, and rows entered by hand before them.
MaxRuns == 1
MaxStored == 2
\* The generator calls explored: section keys of one call; section keys x
\* (1 + rows stored at the call); days x slots x rooms x that product.
MaxKeys == 2
MaxLoad == 2
MaxWork == 6

\* ------------------------------------------------------- program constants
SESSIONS_PER_SUBJECT == 3
MAX_ATTEMPTS == 500
REFILL_THRESHOLD == 5

\* TIME_SLOTS of the source, in minutes since midnight.
AllTimeSlots ==
  << <<540, 600>>, <<600, 660>>, <<675, 735>>,
     <<735, 795>>, <<840, 900>>, <<900, 960>> >>

\* The catalog: one known course; every other course identifier is unknown.
KnownCourse == "BCA"
UnknownCourse == "M.Tech"
AllSubjects ==
  << "Python Programming", "Database Systems", "Networking",
     "Data Structures", "AI Fundamentals" >>
GenericSubjects == << "Core Subject", "Elective", "Project Work" >>
SectionLabels == << "A", "B", "C" >>

VARIABLES
  nDays, nSlots, nFaculty, nRooms,   \* sizes of the pools (fixed by Init)
  store,              \* rows of table timetable as the connection sees them
  saved,              \* rows as of the last commit (what a rollback restores)
  store0,             \* history: the rows stored when the last call started
  pc,                 \* "idle" | "key" | "attempt" | "endsubj" | "persist" | "done"
  course_list, semesters, sections,          \* arguments of the running call
  ci, semester, si,                          \* position of the three loops
  occupied_room, occupied_faculty, occupied_section,
  faculty_load, total_inserts,
  subjects, subj_i,                          \* trimmed subject list, position
  section_occupied_local, day_slot_pairs, inserts,
  sessions_needed, attempts,
  log,                \* messages printed by the running (or last) call
  ret,                \* result of the last add_timetable_entry, or "none"
  runs,               \* generator calls made so far
  probe               \* the last direct call of _time_overlap and its results

cfgVars == << nDays, nSlots, nFaculty, nRooms >>
dbVars == << store, saved, store0 >>
argVars == << course_list, semesters, sections >>
loopVars == << ci, semester, si >>
indexVars == << occupied_room, occupied_faculty, occupied_section >>
sectionVars == << subjects, subj_i, section_occupied_local, day_slot_pairs, inserts >>
subjectVars == << sessions_needed, attempts >>
vars == << nDays, nSlots, nFaculty, nRooms, store, saved, store0, pc,
           course_list, semesters, sections, ci, semester, si,
           occupied_room, occupied_faculty, occupied_section,
           faculty_load, total_inserts, subjects, subj_i,
           section_occupied_local, day_slot_pairs, inserts,
           sessions_needed, attempts, log, ret, runs, probe >>

\* ------------------------------------------------------------------- pools
DAYS == 1 .. nDays
TIME_SLOTS == SubSeq(AllTimeSlots, 1, nSlots)
SAMPLE_FACULTY == 1 .. nFaculty
ROOMS == 1 .. nRooms
NoFaculty == 0
\* Every faculty value a stored row can carry.
FacultyNames == 0 .. MaxFaculty

SAMPLE_SUBJECTS(course) ==
  IF course = KnownCourse THEN SubSeq(AllSubjects, 1, NumSubjects) ELSE << >>

\* ----------------------------------------------------------------- helpers
SeqToSet(s) == { s[i] : i \in 1 .. Len(s) }

Perms(s) ==
  { [i \in 1 .. Len(s) |-> s[f[i]]] :
      f \in { g \in [1 .. Len(s) -> 1 .. Len(s)] :
                \A i, j \in 1 .. Len(s) : i # j => g[i] # g[j] } }

Max(a, b) == IF a >= b THEN a ELSE b

\* The comparison with b_start written for b_end in its second half.
TimeOverlapStartTypo(a_start, a_end, b_start, b_end) ==
  ~ (a_end <= b_start \/ a_start >= b_start)

\* The comparison on closed intervals.
TimeOverlapClosed(a_start, a_end, b_start, b_end) ==
  ~ (a_end < b_start \/ a_start > b_end)

\* _time_overlap: not (a_end <= b_start or a_start >= b_end)
TimeOverlap(a_start, a_end, b_start, b_end) ==
  ~ (a_end <= b_start \/ a_start >= b_end)

Key(r) == << r.course, r.semester, r.section >>

Row(course, sem, section, day, st, et, subject, faculty, room) ==
  [ course |-> course, semester |-> sem, section |-> section, day |-> day,
    st |-> st, et |-> et, subject |-> subject, faculty |-> faculty,
    room |-> room ]

\* UNIQUE(course, semester, section, day, start_time, end_time, room_no)
UniqueKey(r) == << r.course, r.semester, r.section, r.day, r.st, r.et, r.room >>

Msg(type, course, sem, section, subject, n) ==
  [ type |-> type, course |-> course, semester |-> sem, section |-> section,
    subject |-> subject, n |-> n ]

\* The pick drawn from the whole pool, whatever the loads.
PickFacultyAny(faculty_pool, load) == faculty_pool

\* _pick_faculty_balanced: the pool members of least load (one is drawn).
PickFacultyBalanced(faculty_pool, load) ==
  { f \in faculty_pool : \A g \in faculty_pool : load[f] <= load[g] }

\* ------------------------------------------------- occupancy index lookups
\* The source keeps, per (room, day) / (faculty, day) / (course, semester,
\* section, day), a list of (start, end) that it only ever reads with any();
\* the model keeps the set of the tuples key + interval.
RoomBusy(idx, room, d, st, et) ==
  \E e \in idx : e[1] = room /\ e[2] = d /\ TimeOverlap(st, et, e[3], e[4])

FacultyBusy(idx, fac, d, st, et) ==
  \E e \in idx : e[1] = fac /\ e[2] = d /\ TimeOverlap(st, et, e[3], e[4])

SectionBusy(idx, course, sem, section, d, st, et) ==
  \E e \in idx : /\ e[1] = course /\ e[2] = sem /\ e[3] = section /\ e[4] = d
                 /\ TimeOverlap(st, et, e[5], e[6])

LocalBusy(loc, d, st, et) ==
  \E e \in loc : e[1] = d /\ TimeOverlap(st, et, e[2], e[3])

\* The room index starting empty, whatever the store holds.
SeedRoomNone(rows) == {}

\* Lines 251-258: the indexes as loaded from every stored row.
SeedRoom(rows) ==
  { << r.room, r.day, r.st, r.et >> : r \in { x \in rows : x.room # 0 } }

SeedFaculty(rows) ==
  { << r.faculty, r.day, r.st, r.et >> : r \in { x \in rows : x.faculty # NoFaculty } }

\* The section index starting empty, whatever the store holds.
SeedSectionNone(rows) == {}

SeedSection(rows) ==
  { << r.course, r.semester, r.section, r.day, r.st, r.et >> : r \in rows }

\* The load counters starting from zero, whatever the store holds.
SeedLoadZero(rows) == [ f \in FacultyNames |-> 0 ]

\* Lines 260-265: SELECT faculty, COUNT(*) ... WHERE faculty IS NOT NULL
\* GROUP BY faculty.
SeedLoad(rows) ==
  [ f \in FacultyNames |->
      IF f = NoFaculty THEN 0 ELSE Cardinality({ r \in rows : r.faculty = f }) ]

\* ------------------------------------------------------------ subject list
\* The generic list taken for every course.
SubjPoolGeneric(course) == GenericSubjects

\* Lines 270-273: the catalog list, or the generic list for an unknown course.
SubjPool(course) ==
  IF SAMPLE_SUBJECTS(course) = << >> THEN GenericSubjects
  ELSE SAMPLE_SUBJECTS(course)

\* The cut rounding the capacity up to the next multiple of 3.
KeptCountRoundUp(nSubj, nd, ns) ==
  LET max_weekly_slots == nd * ns
      desired_slots == nSubj * 3
  IN  IF desired_slots > max_weekly_slots
      THEN LET max_subjects == Max(1, (max_weekly_slots + 2) \div 3)
           IN  IF max_subjects < nSubj THEN max_subjects ELSE nSubj
      ELSE nSubj

\* Lines 285-290: the number of subjects kept, for nd days and ns daily slots.
KeptCount(nSubj, nd, ns) ==
  LET max_weekly_slots == nd * ns
      desired_slots == nSubj * 3
  IN  IF desired_slots > max_weekly_slots
      THEN LET max_subjects == Max(1, max_weekly_slots \div 3)
           IN  IF max_subjects < nSubj THEN max_subjects ELSE nSubj
      ELSE nSubj

Trimmed(subs, nd, ns) == (Len(subs) * 3) > (nd * ns)

TrimSubjects(subs, nd, ns) == SubSeq(subs, 1, KeptCount(Len(subs), nd, ns))

\* ------------------------------------------------------ the (day, slot) queue
\* day_slot_pairs is a shuffled list that is popped at the head and appended
\* at the tail.  The order of the entries that have not been popped since the
\* last shuffle is undetermined until they are popped, so the model keeps them
\* as a set (fresh, all of them in front of the requeued ones) and draws the
\* head from it at the pop; requeued entries form the known tail.
AllPairs == DAYS \X (1 .. nSlots)

Shuffled(pairs) == [ fresh |-> pairs, tail |-> << >> ]

QueueLen(q) == Cardinality(q.fresh) + Len(q.tail)

QueueHeads(q) ==
  IF q.fresh # {} THEN q.fresh
  ELSE IF q.tail # << >> THEN { Head(q.tail) } ELSE {}

\* The candidate read at the head and left in the queue.
PoppedKept(q, c) == q

\* Line 311: day_slot_pairs.pop(0)
Popped(q, c) ==
  IF c \in q.fresh THEN [ q EXCEPT !.fresh = @ \ { c } ]
  ELSE [ q EXCEPT !.tail = Tail(@) ]

\* The rejected candidate dropped from the queue.
RequeuedDropped(q, c) == q

\* The rejected candidate put back twice.
RequeuedTwice(q, c) == [ q EXCEPT !.tail = Append(Append(@, c), c) ]

\* Lines 316, 326, 334: day_slot_pairs.append(...)
Requeued(q, c) == [ q EXCEPT !.tail = Append(@, c) ]

\* ------------------------------------------------------------ current key
CurCourse == course_list[ci]
CurSection == sections[si]
CurKey == << CurCourse, semester, CurSection >>
CurSubject == subjects[subj_i]

RowsOfKey(rows, k) == { r \in rows : Key(r) = k }
RowsOfSubject(ins, subj) == { r \in BagToSet(ins) : r.subject = subj }

\* -------------------------------------------------------------------- Init
\* _time_overlap has not been called directly.
NoProbe ==
  [ called |-> FALSE, a |-> << 0, 0 >>, b |-> << 0, 0 >>, ab |-> FALSE, ba |-> FALSE ]

Configs ==
  { c \in [ d : 1 .. MaxDays, s : 1 .. MaxSlots, f : 1 .. MaxFaculty, r : 1 .. MaxRooms ] :
      TRUE }

\* The module as loaded, with pools of the sizes explored and an empty table.
Loaded ==
  /\ \E c \in Configs :
       /\ nDays = c.d /\ nSlots = c.s /\ nFaculty = c.f /\ nRooms = c.r
  /\ store = {} /\ saved = {} /\ store0 = {}
  /\ pc = "idle"
  /\ course_list = << >> /\ semesters = 0 /\ sections = << >>
  /\ ci = 0 /\ semester = 0 /\ si = 0
  /\ occupied_room = {} /\ occupied_faculty = {} /\ occupied_section = {}
  /\ faculty_load = [ f \in FacultyNames |-> 0 ]
  /\ total_inserts = 0
  /\ subjects = << >> /\ subj_i = 0
  /\ section_occupied_local = {} /\ day_slot_pairs = Shuffled({}) /\ inserts = EmptyBag
  /\ sessions_needed = 0 /\ attempts = 0
  /\ log = << >> /\ ret = "none"
  /\ runs = 0

Init == Loaded /\ probe = NoProbe

\* ------------------------------------------------- auto_generate_timetable
\* Inputs of a call.
CourseLists == { << KnownCourse >>, << KnownCourse, UnknownCourse >> }
\* Section labels are interchangeable: the lists explored start with "A".
SectionLists ==
  { secs \in UNION { [ 1 .. n -> SeqToSet(SubSeq(SectionLabels, 1, MaxSections)) ] :
                       n \in 1 .. MaxSections } : secs[1] = SectionLabels[1] }

NumKeys(cl, sems, secs) == Len(cl) * sems * Len(secs)

Load(cl, sems, secs) == NumKeys(cl, sems, secs) * (1 + Cardinality(store))

Work(cl, sems, secs) == nDays * nSlots * nRooms * Load(cl, sems, secs)

\* Lines 233-268: the call; it loads the occupancy and the faculty load from
\* the store.
auto_generate_timetable(cl, sems, secs) ==
  /\ pc \in { "idle", "done" }
  /\ runs' = runs + 1
  /\ course_list' = cl /\ semesters' = sems /\ sections' = secs
  /\ occupied_room' = SeedRoom(store)
  /\ occupied_faculty' = SeedFaculty(store)
  /\ occupied_section' = SeedSection(store)
  /\ faculty_load' = SeedLoad(store)
  /\ total_inserts' = 0
  /\ ci' = 1 /\ semester' = 1 /\ si' = 1
  /\ log' = << >>
  /\ ret' = "none"
  /\ store0' = store
  /\ pc' = "key"
  /\ UNCHANGED << cfgVars, probe, store, saved, sectionVars, subjectVars >>

\* A call whose arguments are within the bounds explored.
StartRun(cl, sems, secs) ==
  /\ runs < MaxRuns
  /\ NumKeys(cl, sems, secs) <= MaxKeys
  /\ Load(cl, sems, secs) <= MaxLoad
  /\ Work(cl, sems, secs) <= MaxWork
  /\ auto_generate_timetable(cl, sems, secs)

\* The DELETE without its "AND section=?" condition.
DeleteKeyAnySection(rows, k) ==
  { r \in rows : << r.course, r.semester >> # << k[1], k[2] >> }

\* The pass without the DELETE: the batch is merged into the rows of the key.
DeleteKeyNothing(rows, k) == rows

\* Line 278: DELETE FROM timetable WHERE course=? AND semester=? AND section=?
DeleteKey(rows, k) == { r \in rows : Key(r) # k }

\* Lines 270-304: start of the pass for one (course, semester, section).
BeginKey ==
  /\ pc = "key"
  /\ store' = DeleteKey(store, CurKey)
  /\ \E shuffled \in Perms(SubjPool(CurCourse)) :
       /\ subjects' = TrimSubjects(shuffled, nDays, Len(TIME_SLOTS))
       /\ log' = IF Trimmed(shuffled, nDays, Len(TIME_SLOTS))
                 THEN Append(log, Msg("trim", "", 0, "", "", Len(subjects')))
                 ELSE log
  /\ section_occupied_local' = {}
  /\ day_slot_pairs' = Shuffled(AllPairs)
  /\ inserts' = EmptyBag
  /\ subj_i' = 1
  /\ sessions_needed' = SESSIONS_PER_SUBJECT
  /\ attempts' = 0
  /\ pc' = "attempt"
  /\ UNCHANGED << cfgVars, probe, saved, store0, argVars, loopVars, indexVars,
                  faculty_load, total_inserts, ret, runs >>

\* The while condition without its test of sessions_needed.
LoopPcAttemptsOnly(needed, att) ==
  IF att < MAX_ATTEMPTS THEN "attempt" ELSE "endsubj"

\* The while condition with "<=" for "<" in its attempts test.
LoopPcOneMore(needed, att) ==
  IF needed > 0 /\ att <= MAX_ATTEMPTS THEN "attempt" ELSE "endsubj"

\* The while condition leaving the loop with one session still to place.
LoopPcStopsEarly(needed, att) ==
  IF needed > 1 /\ att < MAX_ATTEMPTS THEN "attempt" ELSE "endsubj"

\* Line 306: the while condition, evaluated on the values after a step.
LoopPc(needed, att) ==
  IF needed > 0 /\ att < MAX_ATTEMPTS THEN "attempt" ELSE "endsubj"

\* Lines 316-317, 326-327, 334-335: the candidate goes back to the tail.
Reject(c) ==
  /\ day_slot_pairs' = Requeued(Popped(day_slot_pairs, c), c)
  /\ attempts' = attempts + 1
  /\ pc' = LoopPc(sessions_needed, attempts + 1)
  /\ UNCHANGED << cfgVars, probe, dbVars, argVars, loopVars, indexVars, faculty_load,
                  total_inserts, subjects, subj_i, section_occupied_local,
                  inserts, sessions_needed, log, ret, runs >>

\* The load counting a placed session twice.
LoadAfterTwice(load, faculty) == [ load EXCEPT ![faculty] = @ + 2 ]

\* Line 340: faculty_load[faculty] += 1
LoadAfter(load, faculty) == [ load EXCEPT ![faculty] = @ + 1 ]

\* The counter of remaining sessions lowered by two for one placement.
NeededAfterTwo(n) == n - 2

\* Line 343: sessions_needed -= 1
NeededAfter(n) == n - 1

\* Lines 336-344: commit the session to the indexes and to the batch.
Place(c, faculty, room_choice) ==
  LET d == c[1]
      st == TIME_SLOTS[c[2]][1]
      et == TIME_SLOTS[c[2]][2]
  IN  /\ occupied_faculty' = occupied_faculty \cup { << faculty, d, st, et >> }
      /\ occupied_room' = occupied_room \cup { << room_choice, d, st, et >> }
      /\ occupied_section' =
           occupied_section \cup { << CurCourse, semester, CurSection, d, st, et >> }
      /\ section_occupied_local' = section_occupied_local \cup { << d, st, et >> }
      /\ faculty_load' = LoadAfter(faculty_load, faculty)
      /\ inserts' = inserts (+) SetToBag({
           Row(CurCourse, semester, CurSection, d, st, et, CurSubject, faculty, room_choice) })
      /\ sessions_needed' = NeededAfter(sessions_needed)
      /\ total_inserts' = total_inserts + 1
      /\ day_slot_pairs' = Popped(day_slot_pairs, c)
      /\ attempts' = attempts + 1
      /\ pc' = LoopPc(NeededAfter(sessions_needed), attempts + 1)
      /\ UNCHANGED << cfgVars, probe, dbVars, argVars, loopVars, subjects, subj_i,
                      log, ret, runs >>

\* The fallback drawing from the whole pool, busy faculty included.
AvailableFacAny(idx, d, st, et) == SAMPLE_FACULTY

\* Lines 323, 328: the faculty free at the slot when the balanced pick is busy.
AvailableFac(idx, d, st, et) ==
  { f \in SAMPLE_FACULTY : ~ FacultyBusy(idx, f, d, st, et) }

\* Lines 330-331: a free room, or any room when none is free.
\* The room drawn from the whole pool, busy rooms included.
RoomChoicesAny(idx, d, st, et) == ROOMS

\* Lines 330-331: a free room, or any room when none is free.
RoomChoices(idx, d, st, et) ==
  LET free_rooms == { r \in ROOMS : ~ RoomBusy(idx, r, d, st, et) }
  IN  IF free_rooms # {} THEN free_rooms ELSE ROOMS

\* Lines 329-344 for the faculty settled on.
RoomAndCommit(c, faculty) ==
  LET d == c[1]
      st == TIME_SLOTS[c[2]][1]
      et == TIME_SLOTS[c[2]][2]
  IN  \E room_choice \in RoomChoices(occupied_room, d, st, et) :
        IF SectionBusy(occupied_section, CurCourse, semester, CurSection, d, st, et)
        THEN Reject(c)
        ELSE Place(c, faculty, room_choice)

\* Lines 318-328: the balanced pick, or a free faculty when the pick is busy.
FacultyStep(c) ==
  LET d == c[1]
      st == TIME_SLOTS[c[2]][1]
      et == TIME_SLOTS[c[2]][2]
  IN  \E faculty \in PickFacultyBalanced(SAMPLE_FACULTY, faculty_load) :
        IF FacultyBusy(occupied_faculty, faculty, d, st, et)
        THEN IF AvailableFac(occupied_faculty, d, st, et) = {}
             THEN Reject(c)
             ELSE \E other \in AvailableFac(occupied_faculty, d, st, et) :
                    RoomAndCommit(c, other)
        ELSE RoomAndCommit(c, faculty)

\* Lines 308-309: the queue is empty, the loop is left.
BreakEmpty ==
  /\ attempts' = attempts + 1
  /\ pc' = "endsubj"
  /\ UNCHANGED << cfgVars, probe, dbVars, argVars, loopVars, indexVars, faculty_load,
                  total_inserts, sectionVars, sessions_needed, log, ret, runs >>

\* Lines 306-345: one iteration of the placement loop.
Attempt ==
  /\ pc = "attempt"
  /\ IF QueueLen(day_slot_pairs) = 0
     THEN BreakEmpty
     ELSE \E c \in QueueHeads(day_slot_pairs) :
            IF LocalBusy(section_occupied_local, c[1],
                         TIME_SLOTS[c[2]][1], TIME_SLOTS[c[2]][2])
            THEN Reject(c)
            ELSE FacultyStep(c)

\* Lines 346-351 and the step of "for subj in subjects".
\* The queue never rebuilt between subjects.
RefillNever(q) == FALSE

\* Line 349: if len(day_slot_pairs) < 5
RefillDue(q) == QueueLen(q) < REFILL_THRESHOLD

\* Lines 346-351: the shortfall message and the rebuilding of a short queue;
\* then the next subject (lines 303-305) or the batch insert.
EndSubject ==
  /\ pc = "endsubj"
  /\ log' = IF sessions_needed > 0
            THEN Append(log, Msg("short", CurCourse, semester, CurSection,
                                 CurSubject, sessions_needed))
            ELSE log
  /\ day_slot_pairs' = IF RefillDue(day_slot_pairs)
                       THEN Shuffled(AllPairs)
                       ELSE day_slot_pairs
  /\ IF subj_i < Len(subjects)
     THEN /\ subj_i' = subj_i + 1
          /\ sessions_needed' = SESSIONS_PER_SUBJECT
          /\ attempts' = 0
          /\ pc' = "attempt"
     ELSE /\ pc' = "persist"
          /\ UNCHANGED << subj_i, sessions_needed, attempts >>
  /\ UNCHANGED << cfgVars, probe, dbVars, argVars, loopVars, indexVars, faculty_load,
                  total_inserts, subjects, section_occupied_local, inserts,
                  ret, runs >>

\* The UNIQUE constraint of the table, for a batch added to rows.
UniqueOk(rows, batch) ==
  /\ \A b \in BagToSet(batch) : \A r \in rows : UniqueKey(b) # UniqueKey(r)
  /\ \A b \in BagToSet(batch) : CopiesIn(b, batch) = 1
  /\ \A b1, b2 \in BagToSet(batch) : b1 # b2 => UniqueKey(b1) # UniqueKey(b2)

\* execute() in the place of executemany(): one row of the batch is inserted.
CommittedOneRow(rows, batch) ==
  IF batch = EmptyBag THEN rows
  ELSE rows \cup { CHOOSE b \in BagToSet(batch) : TRUE }

\* Lines 355-359: executemany + commit.
Committed(rows, batch) == rows \cup BagToSet(batch)

\* A rollback that keeps the DELETE of the pass.
RolledBackKeepsDelete(rows, committed) == rows

\* A rollback that goes back to the rows stored when the call started.
RolledBackToStart(rows, committed) == store0

\* Lines 361-362: rollback to the last commit (the DELETE of line 278 runs in
\* the same transaction as the INSERTs, so it is undone as well).
RolledBack(rows, committed) == committed

LastKey ==
  /\ si = Len(sections) /\ semester = semesters /\ ci = Len(course_list)

\* Lines 353-365 and the steps of the three for loops.
Persist ==
  /\ pc = "persist"
  /\ \E ok \in BOOLEAN :
       /\ ok => UniqueOk(store, inserts)
       /\ store' = IF ok THEN Committed(store, inserts) ELSE RolledBack(store, saved)
       /\ saved' = store'
       /\ LET msg == IF ok
                     THEN Msg("inserted", CurCourse, semester, CurSection, "", BagCardinality(inserts))
                     ELSE Msg("failed", CurCourse, semester, CurSection, "", 0)
          IN  log' = IF LastKey
                     THEN Append(Append(log, msg), Msg("finished", "", 0, "", "", total_inserts))
                     ELSE Append(log, msg)
  /\ IF si < Len(sections)
     THEN /\ si' = si + 1 /\ UNCHANGED << ci, semester >>
     ELSE IF semester < semesters
          THEN /\ si' = 1 /\ semester' = semester + 1 /\ UNCHANGED ci
          ELSE IF ci < Len(course_list)
               THEN /\ si' = 1 /\ semester' = 1 /\ ci' = ci + 1
               ELSE UNCHANGED << ci, semester, si >>
  /\ pc' = IF LastKey THEN "done" ELSE "key"
  /\ UNCHANGED << cfgVars, probe, store0, argVars, indexVars, faculty_load,
                  total_inserts, sectionVars, subjectVars, ret, runs >>

\* ------------------------------------------------------------ manual CRUD
\* Lines 117-146 of add_timetable_entry.
SectionClash(rows, row) ==
  \E r \in rows : /\ Key(r) = Key(row) /\ r.day = row.day
                  /\ ~ (r.et <= row.st \/ r.st >= row.et)

\* The entry added without the room check.
RoomClashNever(rows, row) == FALSE

\* Lines 128-136: the room check, made when a room is given.
RoomClash(rows, row) ==
  /\ row.room # 0
  /\ \E r \in rows : /\ r.room = row.room /\ r.day = row.day
                     /\ ~ (r.et <= row.st \/ r.st >= row.et)

AddAccepted(rows, row) ==
  /\ ~ SectionClash(rows, row)
  /\ ~ RoomClash(rows, row)
  /\ \A r \in rows : UniqueKey(r) # UniqueKey(row)

ManualRows ==
  { Row(KnownCourse, sem, sec, d, TIME_SLOTS[s][1], TIME_SLOTS[s][2], "Seminar", f, room) :
      sem \in { 1 }, sec \in SeqToSet(SubSeq(SectionLabels, 1, MaxSections)),
      d \in DAYS, s \in 1 .. nSlots, f \in { NoFaculty, 1 }, room \in ROOMS }

add_timetable_entry(row) ==
  /\ pc = "idle"
  /\ Cardinality(store) < MaxStored
  /\ IF AddAccepted(store, row)
     THEN /\ store' = store \cup { row } /\ ret' = "True"
     ELSE /\ store' = store /\ ret' = "False"
  /\ saved' = store'
  /\ pc' = "idle"
  /\ UNCHANGED << cfgVars, probe, store0, argVars, loopVars, indexVars, faculty_load,
                  total_inserts, sectionVars, subjectVars, log, runs >>

\* ---------------------------------------------------------------- Next, Spec
Next ==
  \/ \E cl \in CourseLists, sems \in 1 .. MaxSemesters, secs \in SectionLists :
       StartRun(cl, sems, secs)
  \/ BeginKey
  \/ Attempt
  \/ EndSubject
  \/ Persist
  \/ \E row \in ManualRows : add_timetable_entry(row)

Spec == Init /\ [][Next]_vars

\* Lines 367-369: generate_single_timetable passes [course], semester and
\* [section] on to auto_generate_timetable.
generate_single_timetable(course, sem, section) ==
  auto_generate_timetable(<< course >>, sem, << section >>)

\* A single-combination call whose arguments are within the bounds explored.
SingleCall(course, sem, section) ==
  /\ runs < MaxRuns
  /\ NumKeys(<< course >>, sem, << section >>) <= MaxKeys
  /\ Work(<< course >>, sem, << section >>) <= MaxWork
  /\ generate_single_timetable(course, sem, section)

\* The program driven through generate_single_timetable.
NextSingle ==
  \/ \E sem \in 1 .. MaxSemesters,
        section \in SeqToSet(SubSeq(SectionLabels, 1, MaxSections)) :
       SingleCall(KnownCourse, sem, section)
  \/ BeginKey
  \/ Attempt
  \/ EndSubject
  \/ Persist
  \/ \E row \in ManualRows : add_timetable_entry(row)

SpecSingle == Init /\ [][NextSingle]_vars

\* The generator alone, on pools with a room for every faculty member: the
\* store holds nothing but what earlier calls have left.
InitGen == Init /\ nRooms >= nFaculty

\* A call, the first or a later one, whose arguments are within the bounds
\* explored.
GenRun(cl, sems, secs) ==
  /\ runs <= MaxRuns
  /\ NumKeys(cl, sems, secs) <= MaxKeys
  /\ Load(cl, sems, secs) <= MaxLoad
  /\ Work(cl, sems, secs) <= MaxWork
  /\ auto_generate_timetable(cl, sems, secs)

NextGen ==
  \/ \E cl \in CourseLists, sems \in 1 .. MaxSemesters, secs \in SectionLists :
       GenRun(cl, sems, secs)
  \/ BeginKey
  \/ Attempt
  \/ EndSubject
  \/ Persist

SpecGen == InitGen /\ [][NextGen]_vars

\* The times at which a slot of the daily list starts or ends.
SlotTimes == UNION { { AllTimeSlots[i][1], AllTimeSlots[i][2] } : i \in 1 .. Len(AllTimeSlots) }

\* The intervals between two of those times: the slots of the list, what lies
\* between them, and everything spanning several of them.
Intervals == { iv \in SlotTimes \X SlotTimes : iv[1] < iv[2] }

\* Two intervals to call _time_overlap on.
InitOverlap ==
  /\ Loaded
  /\ \E a \in Intervals, b \in Intervals :
       probe = [ called |-> FALSE, a |-> a, b |-> b, ab |-> FALSE, ba |-> FALSE ]

\* _time_overlap called on the two intervals, in both orders.
time_overlap_call ==
  /\ pc = "idle"
  /\ ~ probe.called
  /\ probe' = [ probe EXCEPT
                  !.called = TRUE,
                  !.ab = TimeOverlap(probe.a[1], probe.a[2], probe.b[1], probe.b[2]),
                  !.ba = TimeOverlap(probe.b[1], probe.b[2], probe.a[1], probe.a[2]) ]
  /\ UNCHANGED << cfgVars, dbVars, pc, argVars, loopVars, indexVars, faculty_load,
                  total_inserts, sectionVars, subjectVars, log, ret, runs >>

NextOverlap == time_overlap_call

\* _time_overlap on its own.
SpecOverlap == InitOverlap /\ [][NextOverlap]_vars

\* A call that has started keeps running: its steps are not postponed for ever.
RunStep == BeginKey \/ Attempt \/ EndSubject \/ Persist

FairSpec == Spec /\ WF_vars(RunStep)

\* ================================================================ properties
\* Vocabulary of the properties.

\* Two sessions on the same day whose intervals intersect.
Clash(r1, r2) == r1.day = r2.day /\ r1.st < r2.et /\ r2.st < r1.et

\* The (course, semester, section) combinations of the call's arguments.
RunKeys ==
  { << course_list[i], sem, sections[j] >> :
      i \in 1 .. Len(course_list), sem \in 1 .. semesters, j \in 1 .. Len(sections) }

\* The call has returned.
Returned == pc = "done"

\* The sessions the call that returned has added to the store.
PlacedInStore == store \ store0

\* ------------------------------------------------------------------------ C1
\* C1: when auto_generate_timetable has returned, no session that the call
\* placed and that is in the store has the faculty of another stored session
\* (placed by the call or stored before it) on the same day at an intersecting
\* time.
C1_FacultyNoOverlap ==
  Returned =>
    \A r1 \in PlacedInStore : \A r2 \in store \ { r1 } :
      r1.faculty = r2.faculty => ~ Clash(r1, r2)

\* C1 witness: the call has returned with two sessions it placed, of two
\* different sections, at the same day and time, taught by two different
\* faculty.
C1_Witness ==
  /\ Returned
  /\ \E r1, r2 \in PlacedInStore :
       /\ Key(r1) # Key(r2) /\ Clash(r1, r2)
       /\ r1.faculty # r2.faculty

\* ------------------------------------------------------------------------ C2
\* C2: when auto_generate_timetable has returned, no two stored sessions with
\* the same room are on the same day at intersecting times (the claim as the
\* specification states it, for every size of the pools).
C2_RoomNoOverlap ==
  Returned =>
    \A r1, r2 \in store :
      (r1 # r2 /\ r1.room = r2.room) => ~ Clash(r1, r2)

\* ------------------------------------------------------------------------ C3
\* C3: when auto_generate_timetable has returned, no two stored sessions of
\* the same (course, semester, section) are on the same day at intersecting
\* times; and the sessions placed for one combination in one pass are on
\* pairwise different (day, slot) positions.
C3_SectionNoOverlap ==
  /\ Returned =>
       \A r1, r2 \in store :
         (r1 # r2 /\ Key(r1) = Key(r2)) => ~ Clash(r1, r2)
  /\ \A b1 \in BagToSet(inserts) :
       /\ CopiesIn(b1, inserts) = 1
       /\ \A b2 \in BagToSet(inserts) :
            b1 # b2 => << b1.day, b1.st, b1.et >> # << b2.day, b2.st, b2.et >>

\* C3 witness: the call has returned and one combination holds sessions of
\* two different subjects that the call placed.
C3_Witness ==
  /\ Returned
  /\ \E r1, r2 \in PlacedInStore :
       Key(r1) = Key(r2) /\ r1.subject # r2.subject

\* ------------------------------------------------------------------------ C4
\* The messages logged since the pass of the current combination started:
\* those after the last "inserted" / "failed" message.
PassLog(lg) ==
  LET ends == { i \in 1 .. Len(lg) : lg[i].type \in { "inserted", "failed" } }
      last == IF ends = {} THEN 0 ELSE CHOOSE i \in ends : \A j \in ends : j <= i
  IN  SubSeq(lg, last + 1, Len(lg))

\* A shortfall message for subject subj of combination k.
ShortLogged(lg, k, subj) ==
  \E i \in 1 .. Len(lg) :
    /\ lg[i].type = "short" /\ lg[i].subject = subj
    /\ << lg[i].course, lg[i].semester, lg[i].section >> = k

\* The stored sessions of combination k are 3 for each subject of a subject
\* list of the truncated length, and nothing else.
CompleteKey(rows, k) ==
  LET mine == RowsOfKey(rows, k)
      subs == { r.subject : r \in mine }
  IN  /\ subs \subseteq SeqToSet(SubjPool(k[1]))
      /\ Cardinality(subs) = KeptCount(Len(SubjPool(k[1])), nDays, nSlots)
      /\ \A sb \in subs :
           Cardinality({ r \in mine : r.subject = sb }) = SESSIONS_PER_SUBJECT

\* The step is the batch insert of a pass, and it succeeded.
PersistOk ==
  /\ pc = "persist"
  /\ Len(log') > Len(log)
  /\ log'[Len(log) + 1].type = "inserted"

PlacedFor(ins, subj) ==
  BagCardinality([ b \in RowsOfSubject(ins, subj) |-> CopiesIn(b, ins) ])

\* C5: a subject never gets more than 3 sessions in a pass, and when the
\* subject loop of a pass has ended, every subject of the truncated list for
\* which no shortfall was logged in the pass has exactly 3 sessions placed in
\* the pass.
C5_ThreeUnlessShort ==
  /\ \A sb \in SeqToSet(subjects) : PlacedFor(inserts, sb) <= SESSIONS_PER_SUBJECT
  /\ pc = "persist" =>
       \A i \in 1 .. Len(subjects) :
         ~ ShortLogged(PassLog(log), CurKey, subjects[i]) =>
           PlacedFor(inserts, subjects[i]) = SESSIONS_PER_SUBJECT

\* C5 witness: the subject loop of a pass has ended without any shortfall
\* message, for a list of two subjects, both with 3 sessions placed.
C5_Witness ==
  /\ pc = "persist"
  /\ Len(subjects) = 2
  /\ \A i \in 1 .. Len(subjects) :
       /\ ~ ShortLogged(PassLog(log), CurKey, subjects[i])
       /\ PlacedFor(inserts, subjects[i]) = SESSIONS_PER_SUBJECT

\* ------------------------------------------------------------------------ C6
\* The call has just loaded its indexes: no pass has started yet.
JustSeeded == pc = "key" /\ ci = 1 /\ semester = 1 /\ si = 1

\* The stored sessions of the combinations the call does not regenerate.
RowsNotRegenerated == { r \in store : Key(r) \notin RunKeys }

\* C6 as the specification states it: the room, faculty and section indexes
\* and the faculty load a call starts with are those of the stored sessions
\* of the combinations the call does not regenerate; the stored sessions of a
\* regenerated combination contribute nothing.
C6_SeededFromOtherKeys ==
  JustSeeded =>
    /\ occupied_room = SeedRoom(RowsNotRegenerated)
    /\ occupied_faculty = SeedFaculty(RowsNotRegenerated)
    /\ occupied_section = SeedSection(RowsNotRegenerated)
    /\ faculty_load = SeedLoad(RowsNotRegenerated)

\* ------------------------------------------------------------------------ C7
\* The rows whose combination differs from k.
RowsOfOtherKeys(rows, k) == { r \in rows : Key(r) # k }

\* C7: every step of the pass for a combination K leaves the stored sessions
\* of the other combinations as they are (the insert adds rows of K only, a
\* rollback included), and the delete step of the pass leaves no row of K.
C7_OtherKeysUnchanged ==
  [][ (pc \in { "key", "attempt", "endsubj", "persist" }) =>
        ( /\ RowsOfOtherKeys(store', CurKey) = RowsOfOtherKeys(store, CurKey)
          /\ pc = "key" => RowsOfKey(store', CurKey) = {} ) ]_vars

\* C7 witness: the call has returned having added sessions, and the store
\* still holds a session, stored before the call, of a combination that the
\* call did not regenerate.
C7_Witness ==
  /\ Returned
  /\ PlacedInStore # {}
  /\ \E r \in store0 \cap store : Key(r) \notin RunKeys

\* ------------------------------------------------------------------------ C8
\* C8: when the pass for a combination K ends with a successful batch insert,
\* the stored sessions of K are exactly the sessions placed in the pass.
C8_WhollyReplaced ==
  [][ PersistOk => RowsOfKey(store', CurKey) = BagToSet(inserts) ]_vars

\* C8 witness: the call has returned; a combination that had a session stored
\* before the call now holds sessions placed by the call and none of its
\* earlier ones.
C8_Witness ==
  /\ Returned
  /\ \E r \in store0 :
       /\ Key(r) \in RunKeys
       /\ RowsOfKey(store, Key(r)) # {}
       /\ RowsOfKey(store, Key(r)) \cap store0 = {}

\* ------------------------------------------------------------------------ C9
\* A pass is under way for a course whose subjects, at 3 sessions each, do
\* not fit the week.
PassTrimmed ==
  /\ pc \in { "attempt", "endsubj", "persist" }
  /\ Len(SubjPool(CurCourse)) * SESSIONS_PER_SUBJECT > nDays * nSlots

Running == pc \in { "key", "attempt", "endsubj", "persist" }

\* C10: the placement loop of a subject never makes more than 500 attempts,
\* and every call that has started returns.
C10_Terminates ==
  /\ [](attempts <= MAX_ATTEMPTS)
  /\ Running ~> Returned

\* C10 witness: the placement loop of a subject has been left at its 500th
\* attempt with sessions still to place.
C10_Witness ==
  /\ pc = "endsubj"
  /\ attempts = MAX_ATTEMPTS
  /\ sessions_needed > 0

\* ----------------------------------------------------------------------- C11
\* The number of subjects kept for each course of the list, summed.
RECURSIVE KeptTotal(_, _)
KeptTotal(cl, i) ==
  IF i = 0 THEN 0
  ELSE KeptCount(Len(SubjPool(cl[i])), nDays, nSlots) + KeptTotal(cl, i - 1)

\* The sessions a call places when every kept subject gets its 3 sessions.
ExpectedPlaced ==
  SESSIONS_PER_SUBJECT * KeptTotal(course_list, Len(course_list))
    * semesters * Len(sections)

\* The setting of C11 at the sizes of the model: a call on an empty store,
\* for pairwise different combinations, a week that holds the kept subjects
\* at 3 sessions each, and at least as many faculty as combinations (8
\* faculty for 3 sections in the claim).
C11_Setting ==
  /\ pc \in { "key", "attempt", "endsubj", "persist", "done" }
  /\ store0 = {}
  /\ Cardinality(RunKeys) = NumKeys(course_list, semesters, sections)
  /\ nDays * nSlots >= SESSIONS_PER_SUBJECT
  /\ nFaculty >= NumKeys(course_list, semesters, sections)

\* C11: in that setting every pass places 3 sessions for every subject of
\* its list; the call reports 3 sessions per kept subject and combination
\* (45 for 3 sections of 5 subjects) and, when no insert failed, has stored
\* that many; no two stored sessions of a combination intersect and no
\* faculty has two stored sessions at the same day and time.
C11_AllPlaced ==
  C11_Setting =>
    /\ pc = "persist" =>
         \A i \in 1 .. Len(subjects) :
           PlacedFor(inserts, subjects[i]) = SESSIONS_PER_SUBJECT
    /\ Returned =>
         /\ total_inserts = ExpectedPlaced
         /\ (\A i \in 1 .. Len(log) : log[i].type # "failed") =>
              Cardinality(store) = ExpectedPlaced
         /\ \A r1, r2 \in store :
              (r1 # r2 /\ Clash(r1, r2)) =>
                (Key(r1) # Key(r2) /\ r1.faculty # r2.faculty)

\* C11 witness: a call on an empty store for two sections, with two faculty,
\* has returned with 3 sessions stored for each section.
C11_Witness ==
  /\ C11_Setting /\ Returned
  /\ Len(sections) = 2 /\ nFaculty = 2
  /\ \A k \in RunKeys : Cardinality(RowsOfKey(store, k)) = SESSIONS_PER_SUBJECT

\* ----------------------------------------------------------------------- C12
\* The step is the batch insert of a pass, and it failed.
PersistFailed ==
  /\ pc = "persist"
  /\ Len(log') > Len(log)
  /\ log'[Len(log) + 1].type = "failed"

\* The messages that end a pass: one per pass, success or failure.
PassEnds(lg) ==
  { i \in 1 .. Len(lg) : lg[i].type \in { "inserted", "failed" } }

\* C12: a failed batch insert keeps every session that was in the store (the
\* sessions committed for earlier combinations among them) and the call goes
\* on with the next combination, returning only after the last one; a call
\* that has returned has ended one pass for each combination of its arguments.
C12_FailureIsolated ==
  /\ [][ PersistFailed =>
           ( /\ store \subseteq store'
             /\ IF LastKey THEN pc' = "done"
                ELSE /\ pc' = "key"
                     /\ << ci', semester', si' >> # << ci, semester, si >> ) ]_vars
  /\ [](Returned =>
          /\ Cardinality(PassEnds(log)) = NumKeys(course_list, semesters, sections)
          /\ \A k \in RunKeys : \E i \in PassEnds(log) :
               << log[i].course, log[i].semester, log[i].section >> = k)

\* C12 witness: the call has returned after a successful pass followed by a
\* failed one, and the sessions of the successful pass are in the store.
C12_Witness ==
  /\ Returned
  /\ \E i, j \in PassEnds(log) :
       /\ i < j
       /\ log[i].type = "inserted" /\ log[i].n > 0
       /\ log[j].type = "failed"
       /\ RowsOfKey(store, << log[i].course, log[i].semester, log[i].section >>) # {}

\* ----------------------------------------------------------------------- C13
\* The difference between the largest and the smallest load of the pool.
Spread(load) ==
  LET hi == CHOOSE f \in SAMPLE_FACULTY : \A g \in SAMPLE_FACULTY : load[g] <= load[f]
      lo == CHOOSE f \in SAMPLE_FACULTY : \A g \in SAMPLE_FACULTY : load[f] <= load[g]
  IN  load[hi] - load[lo]

\* The step places a session.
Placement == pc = "attempt" /\ total_inserts' = total_inserts + 1

\* C13: no placement, by the balanced pick or by the free-faculty fallback,
\* raises the difference between the largest and the smallest faculty load
\* by more than 1.
C13_SpreadGrowsByOne ==
  [][ Placement => Spread(faculty_load') <= Spread(faculty_load) + 1 ]_vars

\* C13 witness: with two faculty and an empty store at the start of the
\* call, sessions have been placed and the loads differ by 1.
C13_Witness ==
  /\ Running /\ store0 = {} /\ nFaculty = 2
  /\ total_inserts >= 2
  /\ Spread(faculty_load) = 1

\* ----------------------------------------------------------------------- C14
\* A pass is under way (its subject list is set).
InPass == pc \in { "attempt", "endsubj", "persist" }

\* The subjects a pass may schedule for a course: the catalog list of the
\* course, or the three generic subjects when the catalog has none.
AllowedSubjects(course) ==
  IF SAMPLE_SUBJECTS(course) = << >>
  THEN { "Core Subject", "Elective", "Project Work" }
  ELSE SeqToSet(SAMPLE_SUBJECTS(course))

SingleTarget == << course_list[1], semesters, sections[1] >>

\* C15 as the specification states it: when generate_single_timetable(course,
\* semester, section) has returned, the stored sessions of every combination
\* other than (course, semester, section) are those stored before the call.
C15_OnlyTheCombination ==
  Returned =>
    RowsOfOtherKeys(store, SingleTarget) = RowsOfOtherKeys(store0, SingleTarget)

\* ----------------------------------------------------------------------- C16
\* The count of the closing message "Finished auto-generation. Total inserted
\* slots: n".
ReportedCount == log[Len(log)].n

\* C16 as the specification states it: when the call has returned, the count
\* it reported is the number of sessions it has added to the store.
C16_CountIsWhatWasAdded ==
  Returned => ReportedCount = Cardinality(PlacedInStore)

\* ----------------------------------------------------------------------- C17
\* The subjects of the course that the capacity rule has cut from the pass.
ExcludedSubjects == SeqToSet(SubjPool(CurCourse)) \ SeqToSet(subjects)

\* C17 as the specification states it: in a pass whose subject list was cut,
\* the log of the pass holds a truncation message, and for every subject cut
\* a truncation message that names it.
C17_ExcludedNamed ==
  (InPass /\ ExcludedSubjects # {}) =>
    /\ \E i \in 1 .. Len(PassLog(log)) : PassLog(log)[i].type = "trim"
    /\ \A sb \in ExcludedSubjects :
         \E i \in 1 .. Len(PassLog(log)) :
           /\ PassLog(log)[i].type = "trim"
           /\ PassLog(log)[i].subject = sb

\* ----------------------------------------------------------------------- C18
\* The step is a call of add_timetable_entry.
AddStep == pc = "idle" /\ pc' = "idle"

\* The entry intersects a stored session of its combination, or a stored
\* session in its room.
Overlapping(rows, row) ==
  \E r \in rows :
    /\ Clash(r, row)
    /\ \/ Key(r) = Key(row)
       \/ r.room = row.room

\* C18: add_timetable_entry returns True exactly when it has changed the
\* store; the change is then the one entry added, which intersects no stored
\* session of its combination and none in its room; and when it returns
\* False the store is as it was.
C18_AddContract ==
  [][ AddStep =>
        ( /\ (ret' = "True") <=> (store' # store)
          /\ (store' # store) =>
               \E row \in store' \ store :
                 /\ store' = store \cup { row }
                 /\ ~ Overlapping(store, row)
          /\ (ret' = "False") => (store' = store) ) ]_vars

\* C18 witness: with sessions stored, add_timetable_entry has returned False.
C18_Witness ==
  /\ pc = "idle" /\ runs = 0
  /\ ret = "False"
  /\ Cardinality(store) >= 1

\* ----------------------------------------------------------------------- C19
\* Faculty f has, before the step, a booking that intersects session r.
BookedAt(f, r) ==
  \E e \in occupied_faculty :
    e[1] = f /\ e[2] = r.day /\ e[3] < r.et /\ r.st < e[4]

\* Faculty f has, before the step, the least load of the pool.
LeastLoaded(f) == \A g \in SAMPLE_FACULTY : faculty_load[f] <= faculty_load[g]

\* C19: the faculty of every session placed had no intersecting booking when
\* the session was placed, and either had the least load of the pool then,
\* or a least-loaded faculty was booked at that day and time.
C19_FreeAndBalanced ==
  [][ Placement =>
        \A r \in BagToSet(inserts') :
          CopiesIn(r, inserts') > CopiesIn(r, inserts) =>
            /\ r.faculty \in SAMPLE_FACULTY
            /\ ~ BookedAt(r.faculty, r)
            /\ \/ LeastLoaded(r.faculty)
               \/ \E f \in SAMPLE_FACULTY : LeastLoaded(f) /\ BookedAt(f, r) ]_vars

\* C19 witness: with two faculty and an empty store at the start of the
\* call, the loads differ by 2 or more: a session went to the faculty of
\* higher load, through the fallback.
C19_Witness ==
  /\ Running /\ store0 = {} /\ nFaculty = 2
  /\ Spread(faculty_load) >= 2

\* ----------------------------------------------------------------------- C20
\* The step pops a candidate and does not place it.
Rejection ==
  /\ pc = "attempt"
  /\ QueueLen(day_slot_pairs) > 0
  /\ attempts' = attempts + 1
  /\ total_inserts' = total_inserts

\* The reasons for which candidate c is rejected.
RejectReason(c) ==
  LET d == c[1]
      st == TIME_SLOTS[c[2]][1]
      et == TIME_SLOTS[c[2]][2]
  IN  \/ \E e \in section_occupied_local : e[1] = d /\ e[2] < et /\ st < e[3]
      \/ \A f \in SAMPLE_FACULTY :
           \E e \in occupied_faculty : e[1] = f /\ e[2] = d /\ e[3] < et /\ st < e[4]
      \/ \E e \in occupied_section :
           /\ << e[1], e[2], e[3] >> = CurKey
           /\ e[4] = d /\ e[5] < et /\ st < e[6]

\* C20: a candidate is rejected only because its section is busy in the pass,
\* no faculty is free, or its section is busy in the index; the rejected
\* candidate leaves the head of the queue for its tail, the attempt counter
\* has grown by 1, and the three indexes, the sessions of the pass, the
\* faculty load, the batch and the remaining-session counter are unchanged.
C20_RejectChangesNothing ==
  [][ Rejection =>
        LET q == day_slot_pairs
            c == day_slot_pairs'.tail[Len(day_slot_pairs'.tail)]
        IN  /\ day_slot_pairs'.tail # << >>
            /\ c \in QueueHeads(q)
            /\ RejectReason(c)
            /\ day_slot_pairs'.fresh = q.fresh \ { c }
            /\ day_slot_pairs'.tail =
                 Append(IF c \in q.fresh THEN q.tail ELSE Tail(q.tail), c)
            /\ UNCHANGED << occupied_room, occupied_faculty, occupied_section,
                            section_occupied_local, faculty_load, inserts,
                            sessions_needed, store, log >> ]_vars

\* C20 witness: in the loop of a subject more candidates have been popped
\* than sessions placed, and a rejected candidate is at the tail of the queue.
C20_Witness ==
  /\ pc = "attempt"
  /\ day_slot_pairs.tail # << >>
  /\ attempts > SESSIONS_PER_SUBJECT - sessions_needed

\* ----------------------------------------------------------------------- C21
\* The pairs a queue holds.
QueuePairs(q) == q.fresh \cup SeqToSet(q.tail)

\* The position of the daily slot list with the times of session r.
SlotOf(r) == CHOOSE i \in 1 .. nSlots : TIME_SLOTS[i] = << r.st, r.et >>

\* C21: a placement adds one session of the current combination and subject
\* to the batch and, in the same step, adds its interval to the room index
\* under its room, to the faculty index under its faculty and to the section
\* index under its combination, raises the load of its faculty by 1 and no
\* other load, lowers the remaining-session counter by 1, and takes its
\* (day, slot) out of the queue.
C21_PlacementRecords ==
  [][ Placement =>
        \E r \in BagToSet(inserts') :
          /\ inserts' = inserts (+) SetToBag({ r })
          /\ Key(r) = CurKey /\ r.subject = CurSubject
          /\ occupied_room' = occupied_room \cup { << r.room, r.day, r.st, r.et >> }
          /\ occupied_faculty' =
               occupied_faculty \cup { << r.faculty, r.day, r.st, r.et >> }
          /\ occupied_section' =
               occupied_section \cup
                 { << r.course, r.semester, r.section, r.day, r.st, r.et >> }
          /\ faculty_load'[r.faculty] = faculty_load[r.faculty] + 1
          /\ \A f \in FacultyNames \ { r.faculty } : faculty_load'[f] = faculty_load[f]
          /\ sessions_needed' = sessions_needed - 1
          /\ << r.day, SlotOf(r) >> \in QueueHeads(day_slot_pairs)
          /\ << r.day, SlotOf(r) >> \notin QueuePairs(day_slot_pairs')
          /\ QueueLen(day_slot_pairs') = QueueLen(day_slot_pairs) - 1 ]_vars

\* C21 witness: the first candidate popped for a subject has been placed.
C21_Witness ==
  /\ pc = "attempt"
  /\ attempts = 1
  /\ sessions_needed = SESSIONS_PER_SUBJECT - 1
  /\ inserts # EmptyBag

\* ----------------------------------------------------------------------- C22
\* The loop of a subject is about to pop its first candidate.
LoopStart == pc = "attempt" /\ attempts = 0

\* The step that ends the loop of a subject.
SubjectEnd == pc = "endsubj" /\ pc' # "endsubj"

\* The queue holds every (day, slot) pair once.
FullQueue(q) == QueuePairs(q) = AllPairs /\ QueueLen(q) = nDays * nSlots

\* C22 as stated: the loop of every subject starts with at least 5 candidates
\* in the queue.
C22_LoopStartsWithFive == LoopStart => QueueLen(day_slot_pairs) >= REFILL_THRESHOLD

\* C22 amended: when the loop of a subject has ended, a queue of fewer than 5
\* entries is rebuilt with every (day, slot) pair and a longer queue is kept;
\* so the loop of a later subject never starts with an empty queue and, when
\* days x slots is at least 5, the loop of every subject starts with at least
\* 5 candidates.
C22_RefillBetweenSubjects ==
  /\ [][ SubjectEnd =>
           IF QueueLen(day_slot_pairs) < REFILL_THRESHOLD
           THEN FullQueue(day_slot_pairs')
           ELSE day_slot_pairs' = day_slot_pairs ]_vars
  /\ []( LoopStart =>
           /\ subj_i > 1 => QueueLen(day_slot_pairs) >= 1
           /\ nDays * nSlots >= REFILL_THRESHOLD =>
                QueueLen(day_slot_pairs) >= REFILL_THRESHOLD )

\* C22 witness: on a grid of at least 5 pairs the second subject starts on a
\* queue that was rebuilt after the first subject took its sessions.
C22_Witness ==
  /\ LoopStart
  /\ subj_i = 2
  /\ nDays * nSlots >= REFILL_THRESHOLD
  /\ FullQueue(day_slot_pairs)
  /\ PlacedFor(inserts, subjects[1]) = SESSIONS_PER_SUBJECT

\* ----------------------------------------------------------------------- C23
\* The shortfall message of the current subject with n sessions missing.
ShortMsg(n) == Msg("short", CurCourse, semester, CurSection, CurSubject, n)

\* C23: when the loop of a subject ends, a shortfall message is logged exactly
\* when fewer than 3 of its sessions were placed, and it names the subject and
\* the number missing; the generator then goes to the next subject or to the
\* batch insert and every later placement of the pass is for a later subject;
\* so when the subject loop of a pass has ended, the subjects with fewer than
\* 3 sessions in the batch are exactly those with a shortfall message.
C23_ShortfallLogged ==
  /\ [][ SubjectEnd =>
           LET placed == PlacedFor(inserts, CurSubject)
           IN  /\ log' = IF placed < SESSIONS_PER_SUBJECT
                         THEN Append(log, ShortMsg(SESSIONS_PER_SUBJECT - placed))
                         ELSE log
               /\ \/ pc' = "persist" /\ subj_i = Len(subjects)
                  \/ pc' = "attempt" /\ subj_i' = subj_i + 1 /\ attempts' = 0 ]_vars
  /\ [][ Placement =>
           \A i \in 1 .. Len(subjects) :
             i # subj_i => PlacedFor(inserts', subjects[i]) = PlacedFor(inserts, subjects[i]) ]_vars
  /\ []( pc = "persist" =>
           \A i \in 1 .. Len(subjects) :
             PlacedFor(inserts, subjects[i]) < SESSIONS_PER_SUBJECT
               <=> ShortLogged(PassLog(log), CurKey, subjects[i]) )

\* C23 witness: a pass reaches its batch insert with a subject that got two
\* of its sessions and a shortfall message.
C23_Witness ==
  /\ pc = "persist"
  /\ \E i \in 1 .. Len(subjects) :
       /\ PlacedFor(inserts, subjects[i]) = 2
       /\ ShortLogged(PassLog(log), CurKey, subjects[i])

\* ----------------------------------------------------------------------- C24
\* The sessions of rows that faculty f teaches.
StoredFor(rows, f) == Cardinality({ r \in rows : r.faculty = f })

\* The placements the run has made for faculty f: the intervals the faculty
\* index got under f since it was loaded from the store.
PlacedByRun(f) ==
  Cardinality({ e \in occupied_faculty \ SeedFaculty(store0) : e[1] = f })

\* C24: when a run starts, the load counter of each faculty is the number of
\* sessions the store holds for that faculty; during the run no counter ever
\* decreases and a placement raises the counter of the assigned faculty by 1
\* and no other; so at every point of the run and on return a counter is the
\* stored number at the start plus the placements the run made for that
\* faculty, whatever the combination they were made for.
C24_LoadAccumulates ==
  /\ []( JustSeeded =>
           \A f \in SAMPLE_FACULTY : faculty_load[f] = StoredFor(store, f) )
  /\ []( Running \/ Returned =>
           \A f \in SAMPLE_FACULTY :
             faculty_load[f] = StoredFor(store0, f) + PlacedByRun(f) )
  /\ [][ Running =>
           /\ \A f \in SAMPLE_FACULTY : faculty_load'[f] >= faculty_load[f]
           /\ Placement =>
                \E f \in SAMPLE_FACULTY :
                  /\ PlacedByRun(f)' = PlacedByRun(f) + 1
                  /\ faculty_load'[f] = faculty_load[f] + 1
                  /\ \A g \in SAMPLE_FACULTY \ { f } :
                       faculty_load'[g] = faculty_load[g] ]_vars

\* C24 witness: a faculty that had a stored session at the start of the run
\* has got a session of the run, and its counter is above the stored number.
C24_Witness ==
  /\ Running
  /\ \E f \in SAMPLE_FACULTY :
       /\ StoredFor(store0, f) >= 1
       /\ PlacedByRun(f) >= 1
       /\ faculty_load[f] > StoredFor(store0, f)

\* ----------------------------------------------------------------------- C25
\* The rooms free on day d from st to et.
FreeRooms(d, st, et) == { r \in ROOMS : ~ RoomBusy(occupied_room, r, d, st, et) }

\* The candidates at the head of the queue for which line 330 is reached:
\* the section is locally free and a faculty member is free.
RoomStepReached ==
  { c \in QueueHeads(day_slot_pairs) :
      /\ ~ LocalBusy(section_occupied_local, c[1], TIME_SLOTS[c[2]][1], TIME_SLOTS[c[2]][2])
      /\ AvailableFac(occupied_faculty, c[1], TIME_SLOTS[c[2]][1], TIME_SLOTS[c[2]][2]) # {} }

\* C25: with a room pool at least as large as the faculty pool (the reference
\* pools have 10 rooms for 8 faculty) and a store that holds nothing but what
\* earlier calls of the generator left, a room is free at the candidate's day
\* and slot whenever the room is chosen, so the choice among busy rooms is
\* never taken; every session is placed in a room that was free, and no two
\* sessions of the store and of the batch share a room at overlapping times.
C25_RoomAlwaysFree ==
  /\ []( pc = "attempt" =>
           \A c \in RoomStepReached :
             FreeRooms(c[1], TIME_SLOTS[c[2]][1], TIME_SLOTS[c[2]][2]) # {} )
  /\ [][ Placement =>
           \E r \in BagToSet(inserts') :
             /\ inserts' = inserts (+) SetToBag({ r })
             /\ r.room \in FreeRooms(r.day, r.st, r.et) ]_vars
  /\ []( \A r1, r2 \in store \cup BagToSet(inserts) :
           r1 # r2 /\ r1.room = r2.room => ~ Clash(r1, r2) )

\* C25 witness: a second call has returned after placing a session at the
\* time of a session an earlier call had stored, in another room.
C25_Witness ==
  /\ Returned
  /\ runs = 2
  /\ \E r0 \in store0, r \in PlacedInStore :
       Clash(r, r0) /\ r.room # r0.room /\ r.faculty # r0.faculty

\* ----------------------------------------------------------------------- C26
\* The (day, slot) pairs that the sessions combination k had in the store
\* when the call started occupy.
OldSlots(k) ==
  { c \in AllPairs :
      \E r0 \in RowsOfKey(store0, k) :
        /\ r0.day = c[1]
        /\ TimeOverlap(TIME_SLOTS[c[2]][1], TIME_SLOTS[c[2]][2], r0.st, r0.et) }

\* C26: no session a pass places for a combination is on a day and at a time
\* that a session of the same combination, stored when the call started,
\* occupied; and a pass for a combination whose earlier sessions occupy more
\* than days x slots - 3 x subjects pairs ends with fewer than 3 sessions for
\* some subject of its list.
C26_OldSlotsStayBlocked ==
  /\ \A r \in BagToSet(inserts) \cup (IF Returned THEN PlacedInStore ELSE {}) :
       \A r0 \in RowsOfKey(store0, Key(r)) : ~ Clash(r, r0)
  /\ ( /\ pc = "persist"
       /\ Cardinality(OldSlots(CurKey)) >
            nDays * nSlots - SESSIONS_PER_SUBJECT * Len(subjects) )
     => BagCardinality(inserts) < SESSIONS_PER_SUBJECT * Len(subjects)

\* C26 witness: the call has returned; a combination that had a session in
\* the store got new sessions beside it, and a shortfall was logged for it.
C26_Witness ==
  /\ Returned
  /\ \E r0 \in store0, r \in PlacedInStore :
       /\ Key(r) = Key(r0)
       /\ r0 \notin store
       /\ ShortLogged(log, Key(r0), r.subject)
       /\ Cardinality(OldSlots(Key(r0))) >
            nDays * nSlots - SESSIONS_PER_SUBJECT * Len(subjects)

\* ----------------------------------------------------------------------- C27
\* No interval leaves an index in the step.
IndexesGrow ==
  /\ occupied_room \subseteq occupied_room'
  /\ occupied_faculty \subseteq occupied_faculty'
  /\ occupied_section \subseteq occupied_section'

\* The section index holds the interval of session r.
InSectionIndex(r) ==
  << r.course, r.semester, r.section, r.day, r.st, r.et >> \in occupied_section

\* C27 as stated: on return every stored session has its interval in the room
\* index under its room, in the faculty index under its faculty and in the
\* section index under its combination.
C27_StoredInAllIndexes ==
  Returned =>
    \A r \in store :
      /\ << r.room, r.day, r.st, r.et >> \in occupied_room
      /\ << r.faculty, r.day, r.st, r.et >> \in occupied_faculty
      /\ InSectionIndex(r)

\* C27 amended: no step of a run removes an interval from an index, the
\* delete of a pass and the rollback included; on return every stored session
\* has its interval in the section index, in the room index when it has a
\* room and in the faculty index when it has a faculty.
C27_IndexesOnlyGrow ==
  /\ [][ Running => IndexesGrow ]_vars
  /\ []( Returned =>
           \A r \in store :
             /\ r.room # 0 => << r.room, r.day, r.st, r.et >> \in occupied_room
             /\ r.faculty # NoFaculty =>
                  << r.faculty, r.day, r.st, r.et >> \in occupied_faculty
             /\ InSectionIndex(r) )

\* C27 witness: the call has returned with sessions in the store and with an
\* interval in the section index that no stored session has.
C27_Witness ==
  /\ Returned
  /\ store # {}
  /\ \E e \in occupied_section :
       \A r \in store :
         e # << r.course, r.semester, r.section, r.day, r.st, r.et >>

\* ----------------------------------------------------------------------- C28
\* Every pass the call has ended has failed.
AllPassesFailed == \A i \in PassEnds(log) : log[i].type = "failed"

\* C28: when the batch insert of the pass for a combination fails, the
\* sessions the store holds for that combination after the step are those of
\* the last commit, from before the pass and its delete, and the sessions of
\* every other combination are left as they are; so a call whose passes have
\* all failed returns with the store it started on.
C28_RollbackRestoresKey ==
  /\ [][ PersistFailed =>
           /\ RowsOfKey(store', CurKey) = RowsOfKey(saved, CurKey)
           /\ RowsOfOtherKeys(store', CurKey) = RowsOfOtherKeys(store, CurKey)
           /\ RowsOfOtherKeys(store', CurKey) = RowsOfOtherKeys(saved, CurKey) ]_vars
  /\ []( Returned /\ AllPassesFailed => store = store0 )

\* C28 witness: the call has returned after a failed pass for a combination
\* that had a session in the store, and the session is there again.
C28_Witness ==
  /\ Returned
  /\ \E i \in PassEnds(log) :
       /\ log[i].type = "failed"
       /\ \E r \in store0 \cap store :
            Key(r) = << log[i].course, log[i].semester, log[i].section >>

\* ----------------------------------------------------------------------- C29
\* No (day, slot) pair is in the queue twice.
NoPairTwice(q) ==
  /\ q.fresh \cap SeqToSet(q.tail) = {}
  /\ \A i, j \in 1 .. Len(q.tail) : i # j => q.tail[i] # q.tail[j]

\* C29: when days x slots is at least 5, the queue is not empty whenever the
\* placement loop is about to pop a candidate, so the loop is never left
\* through the test of the empty queue, and no (day, slot) pair is in the
\* queue twice.
C29_QueueNeverEmpty ==
  nDays * nSlots >= REFILL_THRESHOLD =>
    /\ pc = "attempt" => QueueLen(day_slot_pairs) > 0
    /\ NoPairTwice(day_slot_pairs)

\* C29 witness: on a grid of at least 5 pairs a subject is one session short
\* of its 3, rejected candidates are back at the end of the queue and the
\* loop goes on popping.
C29_Witness ==
  /\ nDays * nSlots >= REFILL_THRESHOLD
  /\ pc = "attempt"
  /\ sessions_needed = 1
  /\ Len(day_slot_pairs.tail) >= 2
  /\ QueueLen(day_slot_pairs) > 0

\* ----------------------------------------------------------------------- C30
\* The slots of the daily list.
SlotList == SeqToSet(AllTimeSlots)

\* The half-open intervals [a[1], a[2]) and [b[1], b[2]) have a minute in
\* common.
ShareAMinute(a, b) == \E t \in a[1] .. (a[2] - 1) : b[1] <= t /\ t < b[2]

\* C30: _time_overlap gives the same result with its two intervals exchanged;
\* it is True exactly when the two intervals, taken as half-open, have a
\* minute in common, so an interval that starts when the other ends does not
\* overlap it; and on two slots of the daily list it is True exactly when the
\* two are the same slot.
C30_OverlapOnSlots ==
  probe.called =>
    /\ probe.ab = probe.ba
    /\ probe.ab <=> ShareAMinute(probe.a, probe.b)
    /\ (probe.a[1] = probe.b[2] \/ probe.a[2] = probe.b[1]) => ~ probe.ab
    /\ (probe.a \in SlotList /\ probe.b \in SlotList) =>
         (probe.ab <=> probe.a = probe.b)

\* C30 witness: _time_overlap has been called on the first two slots of the
\* list, the second starting when the first ends, and found no overlap in
\* either order.
C30_Witness ==
  /\ probe.called
  /\ probe.a = AllTimeSlots[1] /\ probe.b = AllTimeSlots[2]
  /\ probe.a[2] = probe.b[1]
  /\ ~ probe.ab /\ ~ probe.ba

====
